---------------------------- MODULE Spec2Model ----------------------------
(***************************************************************************)
(* A model of the multilingual PDF outline extractor (src/adobe/main.py).  *)
(*                                                                         *)
(* Text is modelled as it is in Python: a string is a sequence of Unicode  *)
(* code points (naturals), so that the code's range tests                  *)
(* (U+4E00 <= char <= U+9FFF), its regular expressions and its string      *)
(* methods are translated on the characters themselves.  The character     *)
(* predicates below are exact on the blocks the model draws its text from: *)
(* Basic Latin, Latin-1, Cyrillic U+0400..U+045F, Devanagari, the CJK      *)
(* punctuation / kana blocks U+3000..U+30FF, circled digits, CJK unified   *)
(* ideographs, Hangul syllables and the fullwidth ASCII forms.             *)
(*                                                                         *)
(* Three specifications share the module:                                  *)
(*   Spec        extract_outline on one document, one step per statement   *)
(*               group and one step per scanned line;                      *)
(*   SpecScript  detect_script_type applied to one text;                   *)
(*   SpecBatch   the __main__ loop over the input directory.               *)
(***************************************************************************)
EXTENDS Integers, Sequences, FiniteSets, TLC

VARIABLES
    \* ---- extract_outline ----
    page_texts,      \* the provider's output: a sequence of pages, each a sequence of lines
    pc,              \* position in extract_outline
    doc_stats,       \* the doc_stats dict (primary_script, total_lines)
    repeated_lines,  \* the repeated_lines set
    title,           \* the title local
    outline,         \* the outline list
    seen_headings,   \* the seen_headings set
    page_idx,        \* loop index of "for page_idx, lines in enumerate(page_texts)" (0-based)
    line_idx,        \* loop index of "for line_idx, line in enumerate(lines)" (0-based)
    result,          \* the returned dict, or NoResult
    emitted_at,      \* history: for each outline entry, the <<page_idx, line_idx>> that appended it
    \* ---- detect_script_type ----
    sd_text,         \* the argument
    sd_result,       \* the returned script, or "" before the call
    \* ---- __main__ ----
    files,           \* os.listdir(INPUT_DIR): a sequence of file names
    outcomes,        \* what the environment does to each file (extraction / open / dump fail or not)
    file_idx,        \* position of the for loop (1-based; Len(files)+1 when exhausted)
    processed_count, \* the processed_count local
    artifacts,       \* OUTPUT_DIR: output path -> what the file holds and who wrote it
    console,         \* the lines printed, in order
    batch_pc         \* position in __main__

outline_vars == <<page_texts, pc, doc_stats, repeated_lines, title, outline,
                  seen_headings, page_idx, line_idx, result, emitted_at>>
script_vars  == <<sd_text, sd_result>>
batch_vars   == <<files, outcomes, file_idx, processed_count, artifacts, console, batch_pc>>
vars == <<outline_vars, script_vars, batch_vars>>

-----------------------------------------------------------------------------
(* Characters.                                                             *)

\* str.isspace / regex \s
SpaceChars == {9, 10, 11, 12, 13, 28, 29, 30, 31, 32, 133, 160, 12288}
IsSpace(c) == c \in SpaceChars

\* regex \d (Unicode decimal digits): ASCII, Devanagari, fullwidth
DigitChars == (48..57) \cup (2406..2415) \cup (65296..65305)
IsDigit(c) == c \in DigitChars

\* str.isupper on one character
IsUpperChar(c) ==
    \/ c \in 65..90
    \/ (c \in 192..222 /\ c # 215)
    \/ c \in 1024..1071
    \/ c \in 65313..65338

\* str.islower on one character
IsLowerChar(c) ==
    \/ c \in 97..122
    \/ c \in {170, 181, 186}
    \/ (c \in 223..255 /\ c # 247)
    \/ c \in 1072..1119
    \/ c \in 65345..65370

\* str.isalpha on one character
IsAlpha(c) ==
    \/ IsUpperChar(c) \/ IsLowerChar(c)
    \/ c \in 2308..2361 \/ c \in {2365, 2384} \/ c \in 2392..2401 \/ c \in 2417..2431
    \/ c \in {12293, 12294} \/ c \in 12337..12341 \/ c \in {12347, 12348}
    \/ c \in 12353..12438 \/ c \in 12445..12447
    \/ c \in 12449..12538 \/ c \in 12540..12543
    \/ c \in 19968..40959
    \/ c \in 44032..55203

\* characters that are numeric without being \d: superscripts, fractions,
\* circled digits, ideographic zero and the Hangzhou numerals
IsOtherNumeric(c) ==
    \/ c \in {178, 179, 185, 188, 189, 190}
    \/ c \in 9312..9331
    \/ c = 12295 \/ c \in 12321..12329 \/ c \in 12344..12346

\* regex \w: str.isalnum or the underscore
IsWord(c) == IsAlpha(c) \/ IsDigit(c) \/ IsOtherNumeric(c) \/ c = 95

\* str.lower on one character
LowerChar(c) ==
    IF c \in 65..90 \/ (c \in 192..222 /\ c # 215) \/ c \in 1040..1071 \/ c \in 65313..65338
    THEN c + 32
    ELSE IF c \in 1024..1039 THEN c + 80 ELSE c

\* unicodedata.normalize('NFKC', .) on one character that normalises to one
\* character: the fullwidth ASCII forms, the no-break / ideographic spaces,
\* superscripts, ordinal indicators, circled digits 1-9, Hangzhou numerals.
\* (Characters with a longer normal form, and base + combining-mark pairs
\* that compose, are not drawn by the model.)
NFKCChar(c) ==
    IF c \in 65281..65374 THEN c - 65248
    ELSE IF c \in {160, 12288} THEN 32
    ELSE IF c \in 9312..9320 THEN c - 9263
    ELSE IF c \in {178, 179} THEN c - 128
    ELSE IF c = 185 THEN 49
    ELSE IF c = 170 THEN 97
    ELSE IF c = 186 THEN 111
    ELSE IF c = 181 THEN 956
    ELSE IF c = 12342 THEN 12306
    ELSE IF c = 12344 THEN 21313
    ELSE IF c = 12345 THEN 21316
    ELSE IF c = 12346 THEN 21317
    ELSE c

-----------------------------------------------------------------------------
(* Strings: sequences of code points.                                      *)

Min(a, b) == IF a <= b THEN a ELSE b
Max(a, b) == IF a >= b THEN a ELSE b

\* str.lower
Lower(s) == [i \in 1..Len(s) |-> LowerChar(s[i])]

\* s[i..] starts with w
StartsWithAt(s, i, w) ==
    /\ i >= 1
    /\ i + Len(w) - 1 <= Len(s)
    /\ \A k \in 1..Len(w) : s[i + k - 1] = w[k]

\* "w in s" / re.search of a literal
Contains(s, w) == \E i \in 1..(Len(s) - Len(w) + 1) : StartsWithAt(s, i, w)

\* str.endswith of one character
EndsWithChar(s, c) == Len(s) > 0 /\ s[Len(s)] = c

\* the first index >= i whose character is outside cls (Len(s)+1 if none): the end
\* of a greedy cls* started at i
SkipWhile(s, i, cls) ==
    IF i > Len(s) THEN i
    ELSE CHOOSE j \in i..(Len(s) + 1) :
            /\ \A k \in i..(j - 1) : s[k] \in cls
            /\ (j = Len(s) + 1 \/ s[j] \notin cls)

\* the start of the maximal run of cls characters that ends the string
\* (Len(s)+1 if the last character is outside cls)
TrailStart(s, j, cls) ==
    CHOOSE a \in 1..(j + 1) :
        /\ \A k \in a..j : s[k] \in cls
        /\ (a = 1 \/ s[a - 1] \notin cls)

\* str.strip
Strip(s) ==
    LET a == SkipWhile(s, 1, SpaceChars)
        b == TrailStart(s, Len(s), SpaceChars) - 1
    IN  IF a > b THEN <<>> ELSE SubSeq(s, a, b)

\* len(s.split()): the number of maximal runs of non-whitespace
WordCount(s) ==
    Cardinality({ i \in 1..Len(s) :
                    ~IsSpace(s[i]) /\ (i = 1 \/ IsSpace(s[i - 1])) })

\* ' '.join(lines)
RECURSIVE JoinLines(_)
JoinLines(ls) ==
    IF ls = <<>> THEN <<>>
    ELSE IF Len(ls) = 1 THEN ls[1]
    ELSE ls[1] \o <<32>> \o JoinLines(Tail(ls))

\* list[:n]
Take(ls, n) == SubSeq(ls, 1, Min(n, Len(ls)))

\* all_lines: the pages' lines, flattened in order
RECURSIVE Flatten(_)
Flatten(pages) ==
    IF pages = <<>> THEN <<>> ELSE pages[1] \o Flatten(Tail(pages))

\* the elements of a sequence
Range(s) == { s[i] : i \in 1..Len(s) }

\* Counter(ls)[x]
CountOf(ls, x) == Cardinality({ i \in 1..Len(ls) : ls[i] = x })

-----------------------------------------------------------------------------
(* detect_script_type                                                      *)

\* the keys of the scripts dict, in insertion order
SCRIPT_KEYS == <<"chinese", "japanese", "korean", "devanagari", "latin", "cyrillic">>

\* the if/elif chain: the script one character is counted under ("" if none)
CharScript(c) ==
    IF c \in 19968..40959 THEN "chinese"
    ELSE IF c \in 12352..12447 \/ c \in 12448..12543 THEN "japanese"
    ELSE IF c \in 44032..55215 THEN "korean"
    ELSE IF c \in 2304..2431 THEN "devanagari"
    ELSE IF c \in 1024..1279 THEN "cyrillic"
    ELSE IF IsAlpha(c) THEN "latin"
    ELSE ""

\* scripts[k] after the loop
ScriptCount(t, k) == Cardinality({ i \in 1..Len(t) : CharScript(t[i]) = k })

\* max(d, key=d.get) for a dict d whose keys, in insertion order, are keys
\* and whose values are counts: the first key whose count is the largest
FirstMaxKey(keys, counts) ==
    LET best == CHOOSE i \in 1..Len(keys) :
                  /\ \A j \in 1..Len(keys) : counts[j] <= counts[i]
                  /\ \A j \in 1..(i - 1) : counts[j] < counts[i]
    IN  keys[best]

detect_script_type(t) ==
    IF t = <<>> THEN "latin"
    ELSE LET n1 == ScriptCount(t, SCRIPT_KEYS[1])
             n2 == ScriptCount(t, SCRIPT_KEYS[2])
             n3 == ScriptCount(t, SCRIPT_KEYS[3])
             n4 == ScriptCount(t, SCRIPT_KEYS[4])
             n5 == ScriptCount(t, SCRIPT_KEYS[5])
             n6 == ScriptCount(t, SCRIPT_KEYS[6])
         IN  FirstMaxKey(SCRIPT_KEYS, <<n1, n2, n3, n4, n5, n6>>)

-----------------------------------------------------------------------------
(* MULTILINGUAL_NOISE_PATTERNS.  The alternatives that are literals are    *)
(* kept as words, one set per language tag; the others are translated      *)
(* below.  Every pattern is searched in line_lower with re.IGNORECASE; the *)
(* literals are lower-case already.                                        *)

\* universal: "copyright", "\u00a9", "\u00ae", "\u2122", "version", "\u0938\u0902\u0938\u094d\u0915\u0930\u0923", "\u7248\u672c", "\u30d0\u30fc\u30b8\u30e7\u30f3", "\ubc84\uc804", "versi\u00f3n", "version", "www.", "http", ".com", ".org"
NOISE_UNIVERSAL ==
    { <<99, 111, 112, 121, 114, 105, 103, 104, 116>>,
      <<169>>,
      <<174>>,
      <<8482>>,
      <<118, 101, 114, 115, 105, 111, 110>>,
      <<2360, 2306, 2360, 2381, 2325, 2352, 2339>>,
      <<29256, 26412>>,
      <<12496, 12540, 12472, 12519, 12531>>,
      <<48260, 51204>>,
      <<118, 101, 114, 115, 105, 243, 110>>,
      <<118, 101, 114, 115, 105, 111, 110>>,
      <<119, 119, 119, 46>>,
      <<104, 116, 116, 112>>,
      <<46, 99, 111, 109>>,
      <<46, 111, 114, 103>> }
\* english: "all rights reserved", "confidential", "internal use", "draft", "table of contents", "index", "appendix"
NOISE_ENGLISH ==
    { <<97, 108, 108, 32, 114, 105, 103, 104, 116, 115, 32, 114, 101, 115, 101, 114, 118, 101, 100>>,
      <<99, 111, 110, 102, 105, 100, 101, 110, 116, 105, 97, 108>>,
      <<105, 110, 116, 101, 114, 110, 97, 108, 32, 117, 115, 101>>,
      <<100, 114, 97, 102, 116>>,
      <<116, 97, 98, 108, 101, 32, 111, 102, 32, 99, 111, 110, 116, 101, 110, 116, 115>>,
      <<105, 110, 100, 101, 120>>,
      <<97, 112, 112, 101, 110, 100, 105, 120>> }
\* hindi: "\u0938\u092d\u0940 \u0905\u0927\u093f\u0915\u093e\u0930 \u0938\u0941\u0930\u0915\u094d\u0937\u093f\u0924", "\u0917\u094b\u092a\u0928\u0940\u092f", "\u0906\u0902\u0924\u0930\u093f\u0915 \u0909\u092a\u092f\u094b\u0917", "\u092e\u0938\u094c\u0926\u093e", "\u0935\u093f\u0937\u092f \u0938\u0942\u091a\u0940", "\u0905\u0928\u0941\u0915\u094d\u0930\u092e\u0923\u093f\u0915\u093e", "\u092a\u0930\u093f\u0936\u093f\u0937\u094d\u091f"
NOISE_HINDI ==
    { <<2360, 2349, 2368, 32, 2309, 2343, 2367, 2325, 2366, 2352, 32, 2360, 2369, 2352, 2325, 2381, 2359, 2367, 2340>>,
      <<2327, 2379, 2346, 2344, 2368, 2351>>,
      <<2310, 2306, 2340, 2352, 2367, 2325, 32, 2313, 2346, 2351, 2379, 2327>>,
      <<2350, 2360, 2380, 2342, 2366>>,
      <<2357, 2367, 2359, 2351, 32, 2360, 2370, 2330, 2368>>,
      <<2309, 2344, 2369, 2325, 2381, 2352, 2350, 2339, 2367, 2325, 2366>>,
      <<2346, 2352, 2367, 2358, 2367, 2359, 2381, 2335>> }
\* chinese: "\u7248\u6743\u6240\u6709", "\u4fdd\u5bc6", "\u5185\u90e8\u4f7f\u7528", "\u8349\u7a3f", "\u76ee\u5f55", "\u7d22\u5f15", "\u9644\u5f55"
NOISE_CHINESE ==
    { <<29256, 26435, 25152, 26377>>,
      <<20445, 23494>>,
      <<20869, 37096, 20351, 29992>>,
      <<33609, 31295>>,
      <<30446, 24405>>,
      <<32034, 24341>>,
      <<38468, 24405>> }
\* japanese: "\u8457\u4f5c\u6a29", "\u6a5f\u5bc6", "\u5185\u90e8\u4f7f\u7528", "\u4e0b\u66f8\u304d", "\u76ee\u6b21", "\u7d22\u5f15", "\u4ed8\u9332"
NOISE_JAPANESE ==
    { <<33879, 20316, 27177>>,
      <<27231, 23494>>,
      <<20869, 37096, 20351, 29992>>,
      <<19979, 26360, 12365>>,
      <<30446, 27425>>,
      <<32034, 24341>>,
      <<20184, 37682>> }
\* korean: "\uc800\uc791\uad8c", "\uae30\ubc00", "\ub0b4\ubd80 \uc0ac\uc6a9", "\ucd08\uc548", "\ubaa9\ucc28", "\uc0c9\uc778", "\ubd80\ub85d"
NOISE_KOREAN ==
    { <<51200, 51089, 44428>>,
      <<44592, 48128>>,
      <<45236, 48512, 32, 49324, 50857>>,
      <<52488, 50504>>,
      <<47785, 52264>>,
      <<49353, 51064>>,
      <<48512, 47197>> }
\* spanish: "derechos reservados", "confidencial", "uso interno", "borrador", "\u00edndice", "tabla de contenidos", "ap\u00e9ndice"
NOISE_SPANISH ==
    { <<100, 101, 114, 101, 99, 104, 111, 115, 32, 114, 101, 115, 101, 114, 118, 97, 100, 111, 115>>,
      <<99, 111, 110, 102, 105, 100, 101, 110, 99, 105, 97, 108>>,
      <<117, 115, 111, 32, 105, 110, 116, 101, 114, 110, 111>>,
      <<98, 111, 114, 114, 97, 100, 111, 114>>,
      <<237, 110, 100, 105, 99, 101>>,
      <<116, 97, 98, 108, 97, 32, 100, 101, 32, 99, 111, 110, 116, 101, 110, 105, 100, 111, 115>>,
      <<97, 112, 233, 110, 100, 105, 99, 101>> }
\* french: "droits r\u00e9serv\u00e9s", "confidentiel", "usage interne", "brouillon", "table des mati\u00e8res", "index", "annexe"
NOISE_FRENCH ==
    { <<100, 114, 111, 105, 116, 115, 32, 114, 233, 115, 101, 114, 118, 233, 115>>,
      <<99, 111, 110, 102, 105, 100, 101, 110, 116, 105, 101, 108>>,
      <<117, 115, 97, 103, 101, 32, 105, 110, 116, 101, 114, 110, 101>>,
      <<98, 114, 111, 117, 105, 108, 108, 111, 110>>,
      <<116, 97, 98, 108, 101, 32, 100, 101, 115, 32, 109, 97, 116, 105, 232, 114, 101, 115>>,
      <<105, 110, 100, 101, 120>>,
      <<97, 110, 110, 101, 120, 101>> }
\* german: "alle rechte vorbehalten", "vertraulich", "interne verwendung", "entwurf", "inhaltsverzeichnis", "index", "anhang"
NOISE_GERMAN ==
    { <<97, 108, 108, 101, 32, 114, 101, 99, 104, 116, 101, 32, 118, 111, 114, 98, 101, 104, 97, 108, 116, 101, 110>>,
      <<118, 101, 114, 116, 114, 97, 117, 108, 105, 99, 104>>,
      <<105, 110, 116, 101, 114, 110, 101, 32, 118, 101, 114, 119, 101, 110, 100, 117, 110, 103>>,
      <<101, 110, 116, 119, 117, 114, 102>>,
      <<105, 110, 104, 97, 108, 116, 115, 118, 101, 114, 122, 101, 105, 99, 104, 110, 105, 115>>,
      <<105, 110, 100, 101, 120>>,
      <<97, 110, 104, 97, 110, 103>> }

NOISE_LITERALS ==
    NOISE_UNIVERSAL \cup NOISE_ENGLISH \cup NOISE_HINDI \cup NOISE_CHINESE
    \cup NOISE_JAPANESE \cup NOISE_KOREAN \cup NOISE_SPANISH \cup NOISE_FRENCH
    \cup NOISE_GERMAN

\* r'page \d+': the word "page", one space, a digit
PAGE_LITERAL == <<112, 97, 103, 101, 32>>

\* r'<word>\s*\d+' for U+9875, "\u30da\u30fc\u30b8", "\ud398\uc774\uc9c0",
\* "p\u00e1gina", "seite"
PAGE_WORDS ==
    { <<39029>>,
      <<12506, 12540, 12472>>,
      <<54168, 51060, 51648>>,
      <<112, 225, 103, 105, 110, 97>>,
      <<115, 101, 105, 116, 101>> }

\* w, then \s*, then \d, starting at i
WordSpacesDigitAt(s, i, w) ==
    /\ StartsWithAt(s, i, w)
    /\ LET j == SkipWhile(s, i + Len(w), SpaceChars)
       IN  j <= Len(s) /\ IsDigit(s[j])

\* r'page \d+|...\s*\d+' searched anywhere
MatchesPageNumber(s) ==
    \E i \in 1..Len(s) :
        \/ /\ StartsWithAt(s, i, PAGE_LITERAL)
           /\ i + Len(PAGE_LITERAL) <= Len(s)
           /\ IsDigit(s[i + Len(PAGE_LITERAL)])
        \/ \E w \in PAGE_WORDS : WordSpacesDigitAt(s, i, w)

\* [.\-_]
LeaderChars == {46, 45, 95}
IsLeaderChar(c) == c \in LeaderChars

\* r'[.\-_]{4,}' searched anywhere
MatchesDotLeader(s) ==
    \E i \in 1..(Len(s) - 3) : \A k \in 0..3 : IsLeaderChar(s[i + k])

\* s[i..i+n-1] are n digits
DigitsAt(s, i, n) == i + n - 1 <= Len(s) /\ \A k \in 0..(n - 1) : IsDigit(s[i + k])

\* r'^\d{1,2}:\d{2}|^\d{1,2}/\d{1,2}/\d{2,4}'
MatchesTimeOrDate(s) ==
    \/ \E n \in 1..2 :
          /\ DigitsAt(s, 1, n)
          /\ n + 1 <= Len(s) /\ s[n + 1] = 58
          /\ DigitsAt(s, n + 2, 2)
    \/ \E n \in 1..2 : \E m \in 1..2 :
          /\ DigitsAt(s, 1, n)
          /\ n + 1 <= Len(s) /\ s[n + 1] = 47
          /\ DigitsAt(s, n + 2, m)
          /\ n + m + 2 <= Len(s) /\ s[n + m + 2] = 47
          /\ DigitsAt(s, n + m + 3, 2)

\* r'^[^\w\s]*$'
MatchesOnlyPunctuation(s) == \A i \in 1..Len(s) : ~IsWord(s[i]) /\ ~IsSpace(s[i])

\* r'^[\d\s\-_.()]+$'
MatchesPureNumbers(s) ==
    /\ s # <<>>
    /\ \A i \in 1..Len(s) : IsDigit(s[i]) \/ IsSpace(s[i]) \/ s[i] \in {45, 95, 46, 40, 41}

\* the loop over MULTILINGUAL_NOISE_PATTERNS.values()
MatchesNoisePattern(line_lower) ==
    \/ \E w \in NOISE_LITERALS : Contains(line_lower, w)
    \/ MatchesPageNumber(line_lower)
    \/ MatchesDotLeader(line_lower)
    \/ MatchesTimeOrDate(line_lower)
    \/ MatchesOnlyPunctuation(line_lower)

\* is_multilingual_noise(line, repeated_lines, line_context); the context
\* dict is its one entry, short_lines_nearby (0 for the empty dict)
is_multilingual_noise(line, repeated, short_lines_nearby) ==
    LET line_lower == Strip(Lower(line))
    IN  \/ Strip(line) \in repeated
        \/ Len(line_lower) < 2
        \/ MatchesNoisePattern(line_lower)
        \/ short_lines_nearby >= 4
        \/ MatchesPureNumbers(Strip(line))

\* analyze_line_context(lines, current_idx)['short_lines_nearby'];
\* current_idx is 0-based as in the code
analyze_line_context(lines, current_idx) ==
    LET start == Max(0, current_idx - 3)
        end   == Min(Len(lines), current_idx + 4)
    IN  Cardinality({ i \in start..(end - 1) :
                        /\ i # current_idx
                        /\ Strip(lines[i + 1]) # <<>>
                        /\ WordCount(lines[i + 1]) <= 6 })

-----------------------------------------------------------------------------
(* MULTILINGUAL_HEADING_PATTERNS and INSTRUCTION_WORDS                     *)

\* the end of the greedy (\.\d+)* started at i
RECURSIVE DotGroupsEnd(_, _)
DotGroupsEnd(s, i) ==
    IF i + 1 <= Len(s) /\ s[i] = 46 /\ IsDigit(s[i + 1])
    THEN DotGroupsEnd(s, SkipWhile(s, i + 1, DigitChars))
    ELSE i

\* the number of (\.\d+) groups matched from i
RECURSIVE DotGroupCount(_, _)
DotGroupCount(s, i) ==
    IF i + 1 <= Len(s) /\ s[i] = 46 /\ IsDigit(s[i + 1])
    THEN 1 + DotGroupCount(s, SkipWhile(s, i + 1, DigitChars))
    ELSE 0

\* r'^\d+(\.\d+)*\.?\s+'
MatchesUniversalNumbering(s) ==
    /\ Len(s) >= 1 /\ IsDigit(s[1])
    /\ LET g == DotGroupsEnd(s, SkipWhile(s, 1, DigitChars))
           j == IF g <= Len(s) /\ s[g] = 46 THEN g + 1 ELSE g
       IN  j <= Len(s) /\ IsSpace(s[j])

\* r'^<pre>\d+<suf>' with pre a (possibly empty) literal and suf one character
MatchesDigitsBetween(s, pre, suf) ==
    /\ StartsWithAt(s, 1, pre)
    /\ Len(pre) + 1 <= Len(s) /\ IsDigit(s[Len(pre) + 1])
    /\ LET j == SkipWhile(s, Len(pre) + 1, DigitChars)
       IN  j <= Len(s) /\ s[j] = suf

\* the ordinal prefix U+7B2C (di); the suffixes used with it below are
\* U+7AE0 (zhang, chapter) and U+8282 / U+7BC0 (jie, section); the Korean
\* suffixes are U+C7A5 (jang, chapter) and U+C808 (jeol, section)
CH_DI == <<31532>>

\* the Hindi words for chapter (adhyay), section (khand) and part (bhag)
HI_ADHYAY == <<2309, 2343, 2381, 2351, 2366, 2351>>
HI_KHAND == <<2326, 2306, 2337>>
HI_BHAG == <<2349, 2366, 2327>>

\* r'^<word>\s*\d+' for: adhyay, khand, "cap\u00edtulo", "secci\u00f3n",
\* "chapitre", "section", "kapitel", "abschnitt"
NUMBERED_WORDS ==
    { HI_ADHYAY,
      HI_KHAND,
      <<99, 97, 112, 237, 116, 117, 108, 111>>,
      <<115, 101, 99, 99, 105, 243, 110>>,
      <<99, 104, 97, 112, 105, 116, 114, 101>>,
      <<115, 101, 99, 116, 105, 111, 110>>,
      <<107, 97, 112, 105, 116, 101, 108>>,
      <<97, 98, 115, 99, 104, 110, 105, 116, 116>> }

\* any of MULTILINGUAL_HEADING_PATTERNS['numbered_sections'], re.match with
\* re.IGNORECASE
MatchesNumberedSection(line) ==
    \/ MatchesUniversalNumbering(line)
    \/ \E suf \in {31456, 33410, 31680} : MatchesDigitsBetween(line, CH_DI, suf)
    \/ \E suf \in {51109, 51208} : MatchesDigitsBetween(line, <<>>, suf)
    \/ \E w \in NUMBERED_WORDS : WordSpacesDigitAt(Lower(line), 1, w)

\* [a-z] under re.IGNORECASE
IsAsciiLetter(c) == c \in 65..90 \/ c \in 97..122

\* r'^<word>\s+[a-z]': "appendix", "anexo", "annexe", "anhang"
APPENDIX_WORDS_SPACED ==
    { <<97, 112, 112, 101, 110, 100, 105, 120>>,
      <<97, 110, 101, 120, 111>>,
      <<97, 110, 110, 101, 120, 101>>,
      <<97, 110, 104, 97, 110, 103>> }

\* r'^<word>\s*[a-z]': the Hindi (parishisht), Chinese (U+9644 U+5F55),
\* Japanese (U+4ED8 U+9332) and Korean (U+BD80 U+B85D) words for appendix
APPENDIX_WORDS_TIGHT ==
    { <<2346, 2352, 2367, 2358, 2367, 2359, 2381, 2335>>,
      <<38468, 24405>>,
      <<20184, 37682>>,
      <<48512, 47197>> }

\* any of MULTILINGUAL_HEADING_PATTERNS['appendix_patterns'], re.match with
\* re.IGNORECASE
MatchesAppendix(text) ==
    LET s == Lower(text)
    IN  \/ \E w \in APPENDIX_WORDS_SPACED :
              /\ StartsWithAt(s, 1, w)
              /\ Len(w) + 1 <= Len(s) /\ IsSpace(s[Len(w) + 1])
              /\ LET j == SkipWhile(s, Len(w) + 1, SpaceChars)
                 IN  j <= Len(s) /\ IsAsciiLetter(s[j])
        \/ \E w \in APPENDIX_WORDS_TIGHT :
              /\ StartsWithAt(s, 1, w)
              /\ LET j == SkipWhile(s, Len(w) + 1, SpaceChars)
                 IN  j <= Len(s) /\ IsAsciiLetter(s[j])

\* english: "required", "please", "visit", "fill", "complete", "enter", "select"
INSTR_ENGLISH ==
    { <<114, 101, 113, 117, 105, 114, 101, 100>>,
      <<112, 108, 101, 97, 115, 101>>,
      <<118, 105, 115, 105, 116>>,
      <<102, 105, 108, 108>>,
      <<99, 111, 109, 112, 108, 101, 116, 101>>,
      <<101, 110, 116, 101, 114>>,
      <<115, 101, 108, 101, 99, 116>> }
\* hindi: "\u0906\u0935\u0936\u094d\u092f\u0915", "\u0915\u0943\u092a\u092f\u093e", "\u092d\u0930\u0947\u0902", "\u092a\u0942\u0930\u093e", "\u0926\u0930\u094d\u091c", "\u091a\u0941\u0928\u0947\u0902"
INSTR_HINDI ==
    { <<2310, 2357, 2358, 2381, 2351, 2325>>,
      <<2325, 2371, 2346, 2351, 2366>>,
      <<2349, 2352, 2375, 2306>>,
      <<2346, 2370, 2352, 2366>>,
      <<2342, 2352, 2381, 2332>>,
      <<2330, 2369, 2344, 2375, 2306>> }
\* chinese: "\u5fc5\u9700", "\u8bf7", "\u586b\u5199", "\u5b8c\u6210", "\u8f93\u5165", "\u9009\u62e9"
INSTR_CHINESE ==
    { <<24517, 38656>>,
      <<35831>>,
      <<22635, 20889>>,
      <<23436, 25104>>,
      <<36755, 20837>>,
      <<36873, 25321>> }
\* japanese: "\u5fc5\u8981", "\u3057\u3066\u304f\u3060\u3055\u3044", "\u8a18\u5165", "\u5b8c\u4e86", "\u5165\u529b", "\u9078\u629e"
INSTR_JAPANESE ==
    { <<24517, 35201>>,
      <<12375, 12390, 12367, 12384, 12373, 12356>>,
      <<35352, 20837>>,
      <<23436, 20102>>,
      <<20837, 21147>>,
      <<36984, 25246>> }
\* korean: "\ud544\uc218", "\uc81c\ubc1c", "\ucc44\uc6b0\ub2e4", "\uc644\ub8cc", "\uc785\ub825", "\uc120\ud0dd"
INSTR_KOREAN ==
    { <<54596, 49688>>,
      <<51228, 48156>>,
      <<52292, 50864, 45796>>,
      <<50756, 47308>>,
      <<51077, 47141>>,
      <<49440, 53469>> }
\* spanish: "requerido", "por favor", "llenar", "completar", "entrar", "seleccionar"
INSTR_SPANISH ==
    { <<114, 101, 113, 117, 101, 114, 105, 100, 111>>,
      <<112, 111, 114, 32, 102, 97, 118, 111, 114>>,
      <<108, 108, 101, 110, 97, 114>>,
      <<99, 111, 109, 112, 108, 101, 116, 97, 114>>,
      <<101, 110, 116, 114, 97, 114>>,
      <<115, 101, 108, 101, 99, 99, 105, 111, 110, 97, 114>> }
\* french: "requis", "s'il vous pla\u00eet", "remplir", "compl\u00e9ter", "entrer", "s\u00e9lectionner"
INSTR_FRENCH ==
    { <<114, 101, 113, 117, 105, 115>>,
      <<115, 39, 105, 108, 32, 118, 111, 117, 115, 32, 112, 108, 97, 238, 116>>,
      <<114, 101, 109, 112, 108, 105, 114>>,
      <<99, 111, 109, 112, 108, 233, 116, 101, 114>>,
      <<101, 110, 116, 114, 101, 114>>,
      <<115, 233, 108, 101, 99, 116, 105, 111, 110, 110, 101, 114>> }
\* german: "erforderlich", "bitte", "ausf\u00fcllen", "vervollst\u00e4ndigen", "eingeben", "ausw\u00e4hlen"
INSTR_GERMAN ==
    { <<101, 114, 102, 111, 114, 100, 101, 114, 108, 105, 99, 104>>,
      <<98, 105, 116, 116, 101>>,
      <<97, 117, 115, 102, 252, 108, 108, 101, 110>>,
      <<118, 101, 114, 118, 111, 108, 108, 115, 116, 228, 110, 100, 105, 103, 101, 110>>,
      <<101, 105, 110, 103, 101, 98, 101, 110>>,
      <<97, 117, 115, 119, 228, 104, 108, 101, 110>> }

INSTRUCTION_WORDS ==
    INSTR_ENGLISH \cup INSTR_HINDI \cup INSTR_CHINESE \cup INSTR_JAPANESE
    \cup INSTR_KOREAN \cup INSTR_SPANISH \cup INSTR_FRENCH \cup INSTR_GERMAN

\* str.isupper: some cased character, none of them lower-case
IsUpperStr(s) ==
    /\ \E i \in 1..Len(s) : IsUpperChar(s[i])
    /\ \A i \in 1..Len(s) : ~IsLowerChar(s[i])

IsCased(c) == IsUpperChar(c) \/ IsLowerChar(c)

\* str.istitle: upper-case characters only after uncased ones, lower-case
\* ones only after cased ones, and at least one cased character
IsTitleStr(s) ==
    /\ \E i \in 1..Len(s) : IsCased(s[i])
    /\ \A i \in 1..Len(s) :
          /\ IsUpperChar(s[i]) => (i = 1 \/ ~IsCased(s[i - 1]))
          /\ IsLowerChar(s[i]) => (i > 1 /\ IsCased(s[i - 1]))

\* [A-Z] and [A-Z\s] without IGNORECASE
IsAsciiUpper(c) == c \in 65..90
AsciiUpperOrSpaceChars == (65..90) \cup SpaceChars
IsAsciiUpperOrSpace(c) == c \in AsciiUpperOrSpaceChars

\* r'^\d+\s+[A-Z\s]+$|^[A-Z\s]+,\s*[A-Z]{2}' (re.match, case-sensitive)
MatchesAddress(s) ==
    \/ /\ Len(s) >= 1 /\ IsDigit(s[1])
       /\ LET i == SkipWhile(s, 1, DigitChars)
          IN  /\ i + 1 <= Len(s)
              /\ IsSpace(s[i])
              /\ \A k \in (i + 1)..Len(s) : IsAsciiUpperOrSpace(s[k])
    \/ /\ Len(s) >= 1 /\ IsAsciiUpperOrSpace(s[1])
       /\ LET i == SkipWhile(s, 1, AsciiUpperOrSpaceChars)
          IN  /\ i <= Len(s) /\ s[i] = 44
              /\ LET j == SkipWhile(s, i + 1, SpaceChars)
                 IN  j + 1 <= Len(s) /\ IsAsciiUpper(s[j]) /\ IsAsciiUpper(s[j + 1])

\* the ideographic numerals one..ten, the circled digits 1..10, the Korean
\* ordinal syllables and the Devanagari digits of rules 7-9
CJK_NUMERALS == {19968, 20108, 19977, 22235, 20116, 20845, 19971, 20843, 20061, 21313}
CIRCLED_DIGITS == {9312, 9313, 9314, 9315, 9316, 9317, 9318, 9319, 9320, 9321}
KOREAN_ORDINALS ==
    {44032, 45208, 45796, 46972, 47560, 48148, 49324, 50500, 51088, 52264,
     52852, 53440, 54028, 54616}
DEVANAGARI_DIGITS == {2407, 2408, 2409, 2410, 2411, 2412, 2413, 2414, 2415, 2406}

\* r'[<numerals>]<ideographic comma>'
MatchesCjkListMarker(s) ==
    \E i \in 1..(Len(s) - 1) : s[i] \in CJK_NUMERALS /\ s[i + 1] = 12289

\* r'[<circled digits>]'
MatchesCircledDigit(s) == \E i \in 1..Len(s) : s[i] \in CIRCLED_DIGITS

\* is_multilingual_heading_candidate(line, context, doc_stats); context is
\* its one entry and doc_stats is not read by the code
is_multilingual_heading_candidate(line, short_lines_nearby) ==
    LET words == WordCount(line)
        script_type == detect_script_type(line)
        cjk == script_type \in {"chinese", "japanese"}
        max_chars == IF cjk THEN 50 ELSE 120
        max_words == IF cjk THEN 20 ELSE 15
        uppers == Cardinality({ i \in 1..Len(line) : IsUpperChar(line[i]) })
    IN  /\ ~(words > max_words \/ Len(line) > max_chars)
        /\ ~(short_lines_nearby >= 4)
        /\ \/ MatchesNumberedSection(line)
           \/ MatchesAppendix(line)
           \/ /\ IsUpperStr(line) /\ 2 <= words /\ words <= 8
              /\ ~(\E w \in INSTRUCTION_WORDS : Contains(Lower(line), w))
              /\ ~MatchesAddress(line)
           \/ /\ script_type = "latin" /\ IsTitleStr(line)
              /\ 3 <= words /\ words <= 10
              /\ ~EndsWithChar(line, 58)
           \/ /\ script_type = "latin"
              /\ 5 * uppers >= 3 * Max(1, Len(line))
              /\ uppers < Max(1, Len(line))
              /\ words <= 10
           \/ EndsWithChar(line, 58) /\ 2 <= words /\ words <= 8
           \/ /\ cjk
              /\ \/ MatchesCjkListMarker(line) \/ MatchesCircledDigit(line)
                 \/ Len(line) <= 30 /\ ~EndsWithChar(line, 12290)
           \/ /\ script_type = "korean"
              /\ \E i \in 1..(Len(line) - 1) :
                    line[i] \in KOREAN_ORDINALS /\ line[i + 1] = 46
           \/ /\ script_type = "devanagari"
              /\ \/ \E i \in 1..Len(line) : line[i] \in DEVANAGARI_DIGITS
                 \/ \E w \in {HI_ADHYAY, HI_BHAG, HI_KHAND} : Contains(line, w)

\* get_multilingual_heading_level(text)
get_multilingual_heading_level(raw) ==
    LET text == Strip(raw)
        script_type == detect_script_type(text)
        numeric == Len(text) >= 1 /\ IsDigit(text[1])
        d == IF numeric THEN SkipWhile(text, 1, DigitChars) ELSE 1
        groups == IF numeric THEN DotGroupCount(text, d) ELSE 0
    IN  IF numeric /\ groups >= 3 THEN "H4"
        ELSE IF numeric /\ groups >= 2 THEN "H3"
        ELSE IF numeric /\ groups >= 1 THEN "H2"
        ELSE IF /\ numeric
                /\ LET j == IF d <= Len(text) /\ text[d] = 46 THEN d + 1 ELSE d
                   IN  j <= Len(text) /\ IsSpace(text[j])
             THEN "H1"
        ELSE IF MatchesDigitsBetween(text, CH_DI, 31456) THEN "H1"
        ELSE IF \E suf \in {33410, 31680} : MatchesDigitsBetween(text, CH_DI, suf) THEN "H2"
        ELSE IF MatchesDigitsBetween(text, <<>>, 51109) THEN "H1"
        ELSE IF MatchesDigitsBetween(text, <<>>, 51208) THEN "H2"
        ELSE IF WordSpacesDigitAt(text, 1, HI_ADHYAY) THEN "H1"
        ELSE IF WordSpacesDigitAt(text, 1, HI_KHAND) \/ WordSpacesDigitAt(text, 1, HI_BHAG)
             THEN "H2"
        ELSE IF MatchesAppendix(text) THEN "H2"
        ELSE IF EndsWithChar(text, 58) /\ WordCount(text) <= 5 THEN "H3"
        ELSE IF script_type \in {"chinese", "japanese"} /\ MatchesCjkListMarker(text) THEN "H2"
        ELSE IF script_type \in {"chinese", "japanese"} /\ MatchesCircledDigit(text) THEN "H3"
        ELSE "H1"

\* re.sub(r'\s{2,}', ' ', .): every run of two or more whitespace characters
\* becomes one space
RECURSIVE CollapseSpaces(_)
CollapseSpaces(s) ==
    IF s = <<>> THEN <<>>
    ELSE IF IsSpace(s[1])
         THEN LET j == SkipWhile(s, 1, SpaceChars)
              IN  (IF j - 1 >= 2 THEN <<32>> ELSE <<s[1]>>)
                  \o CollapseSpaces(SubSeq(s, j, Len(s)))
         ELSE <<s[1]>> \o CollapseSpaces(Tail(s))

\* [.] and the ideographic (U+3002) and fullwidth (U+FF0E) full stops
StopChars == {46, 12290, 65294}
IsStopChar(c) == c \in StopChars

\* re.sub(r'[.\-_]{3,}$', '', .)
StripLeaderSuffix(s) ==
    LET a == TrailStart(s, Len(s), LeaderChars)
    IN  IF Len(s) - a + 1 >= 3 THEN SubSeq(s, 1, a - 1) ELSE s

\* re.sub(r'\s+\d+$', '', .)
StripPageNumber(s) ==
    LET d == TrailStart(s, Len(s), DigitChars)
        w == TrailStart(s, d - 1, SpaceChars)
    IN  IF d <= Len(s) /\ w <= d - 1 THEN SubSeq(s, 1, w - 1) ELSE s

\* re.sub(r'[<stops>]{1,2}$', '', .)
StripTrailingStops(s) ==
    LET a == TrailStart(s, Len(s), StopChars)
    IN  SubSeq(s, 1, Len(s) - Min(2, Len(s) - a + 1))

\* clean_multilingual_heading(text)
clean_multilingual_heading(raw) ==
    LET t0 == Strip(raw)
        t1 == StripLeaderSuffix(t0)
        t2 == StripPageNumber(t1)
        t3 == CollapseSpaces(t2)
        t4 == StripTrailingStops(t3)
        t5 == [i \in 1..Len(t4) |-> NFKCChar(t4[i])]
    IN  Strip(t5)

\* the acceptance test of one line in extract_multilingual_title
TitleAccepts(line_clean, repeated) ==
    LET script_type == detect_script_type(line_clean)
        cjk == script_type \in {"chinese", "japanese"}
        min_len == IF cjk THEN 3 ELSE 5
        max_len == IF cjk THEN 80 ELSE 100
        max_words == IF cjk THEN 25 ELSE 15
    IN  /\ min_len < Len(line_clean) /\ Len(line_clean) < max_len
        /\ line_clean \notin repeated
        /\ WordCount(line_clean) <= max_words
        /\ ~is_multilingual_noise(line_clean, repeated, 0)

\* extract_multilingual_title(first_page_lines, repeated_lines)
extract_multilingual_title(first_page_lines, repeated) ==
    LET head == Take(first_page_lines, 10)
        ok == { i \in 1..Len(head) : TitleAccepts(Strip(head[i]), repeated) }
    IN  IF ok = {} THEN <<>>
        ELSE LET first == CHOOSE i \in ok : \A j \in ok : i <= j
             IN  clean_multilingual_heading(Strip(head[first]))

-----------------------------------------------------------------------------
(* Documents: what the page/line provider hands to extract_outline.        *)
(* A document is a sequence of pages; a page is a sequence of trimmed,     *)
(* non-empty lines (main.py line 334).  The model draws the body lines of  *)
(* a document from one of two pools, spreads them over the pages in every  *)
(* way (a page may have no text), and may add the same furniture line      *)
(* (a header or footer) a number of times to every page.                   *)

MaxPages == 2    \* pages of a document
MaxLines == 2    \* body lines of a document, over all its pages
MaxRepeat == 3   \* copies of the furniture line on each page

\* "1 Ab", "1 AB.", "1 Abcd", "1 ABCD.", "2.1 Xy", "plain text"
POOL_DEDUP ==
    { <<49, 32, 65, 98>>,
      <<49, 32, 65, 66, 46>>,
      <<49, 32, 65, 98, 99, 100>>,
      <<49, 32, 65, 66, 67, 68, 46>>,
      <<50, 46, 49, 32, 88, 121>>,
      <<112, 108, 97, 105, 110, 32, 116, 101, 120, 116>> }
\* "\u0916\u0902\u0921 1", "\u092d\u093e\u0917 1", "\u7b2c1\u8282", "1\uc808", "Appendix A", "Anexo A"
POOL_MARKERS ==
    { <<2326, 2306, 2337, 32, 49>>,
      <<2349, 2366, 2327, 32, 49>>,
      <<31532, 49, 33410>>,
      <<49, 51208>>,
      <<65, 112, 112, 101, 110, 100, 105, 120, 32, 65>>,
      <<65, 110, 101, 120, 111, 32, 65>> }

SeqsUpTo(S, n) == UNION { [1..k -> S] : k \in 0..n }

\* the ways to cut a sequence of n lines into p consecutive pages: the index
\* of the last line of each of the first p-1 pages
Cuts(n, p) ==
    { c \in [1..(p - 1) -> 0..n] : \A k \in 1..(p - 2) : c[k] <= c[k + 1] }

Paginate(ls, p, c) ==
    [k \in 1..p |->
        SubSeq(ls, (IF k = 1 THEN 0 ELSE c[k - 1]) + 1,
                   IF k = p THEN Len(ls) ELSE c[k])]

BaseDocs(pool) ==
    { Paginate(ls, p, c) :
        <<ls, p, c>> \in
            UNION { UNION { { <<ls, p, c>> : c \in Cuts(Len(ls), p) }
                            : p \in 1..MaxPages }
                    : ls \in SeqsUpTo(pool, MaxLines) } }

WithFurniture(d, f, r) == [k \in 1..Len(d) |-> d[k] \o [i \in 1..r |-> f]]

DocsOver(pool) ==
    { WithFurniture(d, f, r) : d \in BaseDocs(pool), f \in pool, r \in 0..MaxRepeat }

Documents == DocsOver(POOL_DEDUP) \cup DocsOver(POOL_MARKERS)

-----------------------------------------------------------------------------
(* extract_outline                                                         *)

all_lines == Flatten(page_texts)

\* repeated_threshold and the repeated_lines set comprehension over
\* Counter(all_lines)
RepeatedLines(pages) ==
    LET ls == Flatten(pages)
        repeated_threshold == Max(2, Len(pages) \div 3)
    IN  { l \in Range(ls) : CountOf(ls, l) >= repeated_threshold }

\* as Degenerate, with the comparison of the line count turned round
Degenerate_LongOnly(ls) ==
    /\ 10 * Cardinality(Range(ls)) < 3 * Len(ls)
    /\ Len(ls) > 50

\* unique_ratio < 0.3 and len(all_lines) < 50
Degenerate(ls) ==
    /\ 10 * Cardinality(Range(ls)) < 3 * Len(ls)
    /\ Len(ls) < 50

IdleOutline ==
    /\ page_texts = <<>>
    /\ pc = "idle"
    /\ doc_stats = [total_lines |-> 0, primary_script |-> ""]
    /\ repeated_lines = {}
    /\ title = <<>>
    /\ outline = <<>>
    /\ seen_headings = {}
    /\ page_idx = 0
    /\ line_idx = 0
    /\ result = {}
    /\ emitted_at = <<>>

\* the state after the "Collect all text" loop
InitOutline ==
    /\ page_texts \in Documents
    /\ pc = "collected"
    /\ doc_stats = [total_lines |-> 0, primary_script |-> ""]
    /\ repeated_lines = {}
    /\ title = <<>>
    /\ outline = <<>>
    /\ seen_headings = {}
    /\ page_idx = 0
    /\ line_idx = 0
    /\ result = {}
    /\ emitted_at = <<>>

\* if not all_lines: return {"title": "", "outline": []}
ReturnEmpty ==
    /\ pc = "collected"
    /\ all_lines = <<>>
    /\ result' = { [title |-> <<>>, outline |-> <<>>] }
    /\ pc' = "returned"
    /\ UNCHANGED <<page_texts, doc_stats, repeated_lines, title, outline,
                   seen_headings, page_idx, line_idx, emitted_at>>
    /\ UNCHANGED <<script_vars, batch_vars>>

\* doc_stats = {...}; line_counts; repeated_threshold; repeated_lines
ComputeStats ==
    /\ pc = "collected"
    /\ all_lines # <<>>
    /\ doc_stats' = [total_lines |-> Len(all_lines),
                     primary_script |-> detect_script_type(JoinLines(Take(all_lines, 50)))]
    /\ repeated_lines' = RepeatedLines(page_texts)
    /\ pc' = "stats"
    /\ UNCHANGED <<page_texts, title, outline, seen_headings, page_idx, line_idx,
                   result, emitted_at>>
    /\ UNCHANGED <<script_vars, batch_vars>>

\* title = extract_multilingual_title(page_texts[0] if page_texts else [], repeated_lines)
ExtractTitle ==
    /\ pc = "stats"
    /\ title' = extract_multilingual_title(
                    IF page_texts # <<>> THEN page_texts[1] ELSE <<>>, repeated_lines)
    /\ pc' = "titled"
    /\ UNCHANGED <<page_texts, doc_stats, repeated_lines, outline, seen_headings,
                   page_idx, line_idx, result, emitted_at>>
    /\ UNCHANGED <<script_vars, batch_vars>>

\* the dict returned for a document with very few unique lines
DegenerateResult == [title |-> title, outline |-> <<>>]

\* if unique_ratio < 0.3 and len(all_lines) < 50: return {...}
ReturnDegenerate ==
    /\ pc = "titled"
    /\ Degenerate(all_lines)
    /\ result' = { DegenerateResult }
    /\ pc' = "returned"
    /\ UNCHANGED <<page_texts, doc_stats, repeated_lines, title, outline,
                   seen_headings, page_idx, line_idx, emitted_at>>
    /\ UNCHANGED <<script_vars, batch_vars>>

\* outline = []; seen_headings = set(); the first page of the outer loop
StartScan ==
    /\ pc = "titled"
    /\ ~Degenerate(all_lines)
    /\ outline' = <<>>
    /\ seen_headings' = {}
    /\ page_idx' = 0
    /\ line_idx' = 0
    /\ pc' = "scan"
    /\ UNCHANGED <<page_texts, doc_stats, repeated_lines, title, result, emitted_at>>
    /\ UNCHANGED <<script_vars, batch_vars>>

\* the dict appended to outline
HeadingEntry(clean_text, page) ==
    [level |-> get_multilingual_heading_level(clean_text),
     text |-> clean_text,
     page |-> page,
     script_type |-> detect_script_type(clean_text)]

\* as IsNewHeading, looking the text up in seen_headings without lower()
IsNewHeading_SeenCaseSensitive(clean_text, ttl, seen) ==
    /\ clean_text # <<>>
    /\ Lower(clean_text) # Lower(ttl)
    /\ clean_text \notin seen

\* as IsNewHeading, comparing the text with the title without lower()
IsNewHeading_TitleCaseSensitive(clean_text, ttl, seen) ==
    /\ clean_text # <<>>
    /\ clean_text # ttl
    /\ Lower(clean_text) \notin seen

\* "Skip duplicates and title"
IsNewHeading(clean_text, ttl, seen) ==
    /\ clean_text # <<>>
    /\ Lower(clean_text) # Lower(ttl)
    /\ Lower(clean_text) \notin seen

\* as AppendEntry, with outline.insert(0, ...)
AppendEntry_Front(ol, e) == <<e>> \o ol

\* outline.append(...)
AppendEntry(ol, e) == Append(ol, e)

\* one iteration of the inner loop: the body for lines[line_idx]
ScanLine ==
    /\ pc = "scan"
    /\ page_idx < Len(page_texts)
    /\ line_idx < Len(page_texts[page_idx + 1])
    /\ LET lines == page_texts[page_idx + 1]
           line == lines[line_idx + 1]
           context == analyze_line_context(lines, line_idx)
           clean_text == clean_multilingual_heading(line)
           accepted ==
               /\ Strip(line) # <<>>
               /\ ~is_multilingual_noise(line, repeated_lines, context)
               /\ is_multilingual_heading_candidate(line, context)
               /\ IsNewHeading(clean_text, title, seen_headings)
       IN  IF accepted
           THEN /\ outline' = AppendEntry(outline, HeadingEntry(clean_text, page_idx))
                /\ seen_headings' = seen_headings \cup { Lower(clean_text) }
                /\ emitted_at' = Append(emitted_at, <<page_idx, line_idx>>)
           ELSE UNCHANGED <<outline, seen_headings, emitted_at>>
    /\ line_idx' = line_idx + 1
    /\ UNCHANGED <<page_texts, pc, doc_stats, repeated_lines, title, page_idx, result>>
    /\ UNCHANGED <<script_vars, batch_vars>>

\* the inner loop is exhausted: the outer loop takes the next page
NextPage ==
    /\ pc = "scan"
    /\ page_idx < Len(page_texts)
    /\ line_idx = Len(page_texts[page_idx + 1])
    /\ page_idx' = page_idx + 1
    /\ line_idx' = 0
    /\ UNCHANGED <<page_texts, pc, doc_stats, repeated_lines, title, outline,
                   seen_headings, result, emitted_at>>
    /\ UNCHANGED <<script_vars, batch_vars>>

\* the dict returned after the scan
DoneResult ==
    [title |-> title, outline |-> outline, document_script |-> doc_stats.primary_script]

\* return {"title": title, "outline": outline, "document_script": ...}
ReturnDone ==
    /\ pc = "scan"
    /\ page_idx = Len(page_texts)
    /\ result' = { DoneResult }
    /\ pc' = "returned"
    /\ UNCHANGED <<page_texts, doc_stats, repeated_lines, title, outline,
                   seen_headings, page_idx, line_idx, emitted_at>>
    /\ UNCHANGED <<script_vars, batch_vars>>

Next ==
    \/ ReturnEmpty
    \/ ComputeStats
    \/ ExtractTitle
    \/ ReturnDegenerate
    \/ StartScan
    \/ ScanLine
    \/ NextPage
    \/ ReturnDone

-----------------------------------------------------------------------------
(* detect_script_type on its own                                           *)

MaxTextLen == 3   \* characters of a text handed to detect_script_type

\* one character of each script, a fullwidth and a plain Latin letter, and a
\* digit and a full stop that belong to no script:
\* U+4E00, U+3042, U+AC00, U+0915, U+0431, "a", U+FF21, "1", "."
SCRIPT_ALPHABET == {19968, 12354, 44032, 2325, 1073, 97, 65313, 49, 46}

IdleScript == sd_text = <<>> /\ sd_result = ""

InitScript ==
    /\ sd_text \in SeqsUpTo(SCRIPT_ALPHABET, MaxTextLen)
    /\ sd_result = ""

DetectScript ==
    /\ sd_result = ""
    /\ sd_result' = detect_script_type(sd_text)
    /\ UNCHANGED sd_text
    /\ UNCHANGED <<outline_vars, batch_vars>>

NextScript == DetectScript

IdleBatch ==
    /\ files = <<>>
    /\ outcomes = <<>>
    /\ file_idx = 0
    /\ processed_count = 0
    /\ artifacts = {}
    /\ console = <<>>
    /\ batch_pc = "idle"

Init == InitOutline /\ IdleScript /\ IdleBatch
Spec == Init /\ [][Next]_vars

InitS == IdleOutline /\ InitScript /\ IdleBatch
SpecScript == InitS /\ [][NextScript]_vars

-----------------------------------------------------------------------------
(* __main__: the loop over os.listdir(INPUT_DIR)                           *)

MaxFiles == 3    \* entries of the input directory

\* "a.pdf", "B.PDF", "a.json.pdf", "a.pdf.pdf", "n.txt"
FILE_POOL ==
    { <<97, 46, 112, 100, 102>>,
      <<66, 46, 80, 68, 70>>,
      <<97, 46, 106, 115, 111, 110, 46, 112, 100, 102>>,
      <<97, 46, 112, 100, 102, 46, 112, 100, 102>>,
      <<110, 46, 116, 120, 116>> }

\* '.pdf' and '.json'
DOT_PDF == <<46, 112, 100, 102>>
DOT_JSON == <<46, 106, 115, 111, 110>>

\* str.endswith
EndsWith(s, w) == Len(s) >= Len(w) /\ SubSeq(s, Len(s) - Len(w) + 1, Len(s)) = w

\* str.replace(old, new): every non-overlapping occurrence, left to right
RECURSIVE Replace(_, _, _)
Replace(s, old, new) ==
    IF s = <<>> THEN <<>>
    ELSE IF StartsWithAt(s, 1, old)
         THEN new \o Replace(SubSeq(s, Len(old) + 1, Len(s)), old, new)
         ELSE <<s[1]>> \o Replace(Tail(s), old, new)

\* filename.lower().endswith('.pdf')
IsSupported(filename) == EndsWith(Lower(filename), DOT_PDF)

\* os.path.join(OUTPUT_DIR, filename.replace('.pdf', '.json')), as the name
\* of the file in OUTPUT_DIR
OutputPath(filename) == Replace(filename, DOT_PDF, DOT_JSON)

\* os.listdir: distinct names in an arbitrary order
Listings ==
    { fs \in SeqsUpTo(FILE_POOL, MaxFiles) :
        \A i \in 1..Len(fs) : \A j \in 1..Len(fs) : i # j => fs[i] # fs[j] }

\* what can happen inside the try block for one document: extract_outline
\* raises, open(output_path, 'w') raises, json.dump raises after the file was
\* opened (and so truncated), or nothing raises
OUTCOMES == {"ok", "extract_fail", "open_fail", "dump_fail"}

\* where control goes after the except clause has printed the error: on to
\* the next file of the for loop
AfterException == "loop"

\* OUTPUT_DIR after open(output_path, 'w') by the document filename;
\* complete tells whether json.dump finished
WriteArtifact(dir, filename, complete) ==
    { a \in dir : a.path # OutputPath(filename) }
    \cup { [path |-> OutputPath(filename), by |-> filename, complete |-> complete] }

\* a printed line: its kind, the file it names, the numbers it shows
ConsoleLine(kind, filename, numbers) ==
    [kind |-> kind, file |-> filename, numbers |-> numbers]

\* the numbers shown by the final "Processing complete!" line
SummaryNumbers(count) == <<count>>

InitBatch ==
    /\ files \in Listings
    /\ outcomes = <<>>
    /\ file_idx = 1
    /\ processed_count = 0
    /\ artifacts = {}
    /\ console = <<>>
    /\ batch_pc = "loop"

\* if filename.lower().endswith('.pdf') is false: nothing is done
SkipFile ==
    /\ batch_pc = "loop"
    /\ file_idx <= Len(files)
    /\ ~IsSupported(files[file_idx])
    /\ outcomes' = Append(outcomes, "skipped")
    /\ file_idx' = file_idx + 1
    /\ UNCHANGED <<files, processed_count, artifacts, console, batch_pc>>
    /\ UNCHANGED <<outline_vars, script_vars>>

\* the try block runs to its end
ProcessFile ==
    /\ batch_pc = "loop"
    /\ file_idx <= Len(files)
    /\ IsSupported(files[file_idx])
    /\ artifacts' = WriteArtifact(artifacts, files[file_idx], TRUE)
    /\ console' = Append(console, ConsoleLine("ok", files[file_idx], <<>>))
    /\ processed_count' = processed_count + 1
    /\ outcomes' = Append(outcomes, "ok")
    /\ file_idx' = file_idx + 1
    /\ UNCHANGED <<files, batch_pc>>
    /\ UNCHANGED <<outline_vars, script_vars>>

\* an exception is raised in the try block and caught by "except Exception"
FailFile ==
    /\ batch_pc = "loop"
    /\ file_idx <= Len(files)
    /\ IsSupported(files[file_idx])
    /\ \E o \in OUTCOMES \ {"ok"} :
          /\ artifacts' = IF o = "dump_fail"
                          THEN WriteArtifact(artifacts, files[file_idx], FALSE)
                          ELSE artifacts
          /\ outcomes' = Append(outcomes, o)
    /\ console' = Append(console, ConsoleLine("error", files[file_idx], <<>>))
    /\ batch_pc' = AfterException
    /\ file_idx' = file_idx + 1
    /\ UNCHANGED <<files, processed_count>>
    /\ UNCHANGED <<outline_vars, script_vars>>

\* the for loop is exhausted: the final print
Finish ==
    /\ batch_pc = "loop"
    /\ file_idx = Len(files) + 1
    /\ console' = Append(console, ConsoleLine("complete", <<>>, SummaryNumbers(processed_count)))
    /\ batch_pc' = "done"
    /\ UNCHANGED <<files, outcomes, file_idx, processed_count, artifacts>>
    /\ UNCHANGED <<outline_vars, script_vars>>

NextBatch ==
    \/ SkipFile
    \/ ProcessFile
    \/ FailFile
    \/ Finish

InitB == IdleOutline /\ IdleScript /\ InitBatch
SpecBatch == InitB /\ [][NextBatch]_vars

-----------------------------------------------------------------------------
(* Properties of extract_outline (checked under Spec)                      *)

\* the 0-based <<page, line>> positions of the document
Positions ==
    { <<p, k>> : p \in 0..(Len(page_texts) - 1), k \in 0..(MaxLines + MaxRepeat) } \cap
    { pos \in (0..(Len(page_texts) - 1)) \X (0..(MaxLines + MaxRepeat)) :
        pos[2] < Len(page_texts[pos[1] + 1]) }

LineAt(pos) == page_texts[pos[1] + 1][pos[2] + 1]

ContextAt(pos) == analyze_line_context(page_texts[pos[1] + 1], pos[2])

\* pos comes before q in scan order
Before(pos, q) == pos[1] < q[1] \/ (pos[1] = q[1] /\ pos[2] < q[2])

\* the scan has already handled the line at pos
Scanned(pos) == pc \in {"scan", "returned"} /\ Before(pos, <<page_idx, line_idx>>)

\* the line at pos passes the noise filter and the heading classifier
PassesFilters(pos) ==
    /\ ~is_multilingual_noise(LineAt(pos), repeated_lines, ContextAt(pos))
    /\ is_multilingual_heading_candidate(LineAt(pos), ContextAt(pos))

NoCaseDuplicates(ol) ==
    \A i \in 1..Len(ol) : \A j \in 1..Len(ol) :
        i # j => Lower(ol[i].text) # Lower(ol[j].text)

\* C1: in every state of the scan, and in the returned outline, no two
\* entries have texts that are equal when compared case-insensitively.
C1_UniqueHeadings ==
    /\ NoCaseDuplicates(outline)
    /\ \A r \in result : NoCaseDuplicates(r.outline)

\* C1: a line that passes the filters and differs only in case (after
\* cleaning) from an entry emitted earlier has been scanned.
C1_Witness ==
    \E i \in 1..Len(outline) : \E pos \in Positions :
        /\ Scanned(pos)
        /\ Before(emitted_at[i], pos)
        /\ PassesFilters(pos)
        /\ clean_multilingual_heading(LineAt(pos)) # outline[i].text
        /\ Lower(clean_multilingual_heading(LineAt(pos))) = Lower(outline[i].text)

\* C2: the title never equals, case-insensitively, the text of an entry:
\* neither while the outline is built nor in the returned dict.
C2_TitleNotAnEntry ==
    /\ \A i \in 1..Len(outline) : Lower(outline[i].text) # Lower(title)
    /\ \A r \in result : \A i \in 1..Len(r.outline) :
          Lower(r.outline[i].text) # Lower(r.title)

\* C2: the scan has returned for a document with a title and a line on a
\* later page that passes the filters and cleans to the title up to case.
C2_Witness ==
    /\ pc = "returned"
    /\ title # <<>>
    /\ \E r \in result : r.title = title
    /\ \E pos \in Positions :
          /\ pos[1] >= 1
          /\ Scanned(pos)
          /\ PassesFilters(pos)
          /\ clean_multilingual_heading(LineAt(pos)) # title
          /\ Lower(clean_multilingual_heading(LineAt(pos))) = Lower(title)

\* distinct-line-count / total-line-count < 0.3 and total-line-count < 50
FewUniqueLines ==
    LET ls == Flatten(page_texts)
    IN  /\ ls # <<>>
        /\ 10 * Cardinality(Range(ls)) < 3 * Len(ls)
        /\ Len(ls) < 50

\* C3: for a non-empty document with few unique lines, no line is ever
\* classified (the scan is never entered, nothing is appended), and the dict
\* returned has no entries and the title that extract_multilingual_title
\* yields for the first page.
C3_DegenerateRule ==
    FewUniqueLines =>
        /\ pc # "scan"
        /\ outline = <<>> /\ seen_headings = {} /\ emitted_at = <<>>
        /\ pc = "returned" => result # {}
        /\ \A r \in result :
              /\ r.outline = <<>>
              /\ r.title = extract_multilingual_title(page_texts[1],
                                                      RepeatedLines(page_texts))

\* C3: a document with few unique lines has been returned with a title.
C3_Witness ==
    /\ FewUniqueLines
    /\ pc = "returned"
    /\ \E r \in result : r.title # <<>>

\* C4: every dict returned for a non-empty document carries document_script,
\* the script detected from the first 50 lines.
C4_DocumentScriptAlways ==
    \A r \in result :
        Flatten(page_texts) # <<>> =>
            /\ "document_script" \in DOMAIN r
            /\ r.document_script =
                  detect_script_type(JoinLines(Take(Flatten(page_texts), 50)))

\* the number of pages the line occurs on
PagesWith(l) ==
    Cardinality({ p \in 1..Len(page_texts) : l \in Range(page_texts[p]) })

\* C5: once the repeated-line set is built, a line is in it if and only if it
\* occurs on at least max(2, pageCount / 3) distinct pages.
C5_RepeatedByPages ==
    pc \in {"stats", "titled", "scan", "returned"} /\ Flatten(page_texts) # <<>> =>
        \A l \in Range(Flatten(page_texts)) :
            l \in repeated_lines <=> PagesWith(l) >= Max(2, Len(page_texts) \div 3)

\* positions in scan order
LexIncreasing(ps) ==
    \A i \in 1..Len(ps) : \A j \in 1..Len(ps) : i < j => Before(ps[i], ps[j])

\* C8: entries are non-decreasing in page index in emission order, and the
\* entries of one page are in the order of the lines that produced them.
C8_PageLineOrder ==
    /\ Len(emitted_at) = Len(outline)
    /\ LexIncreasing(emitted_at)
    /\ \A i \in 1..Len(outline) :
          /\ outline[i].page = emitted_at[i][1]
          /\ outline[i].text = clean_multilingual_heading(LineAt(emitted_at[i]))
    /\ \A i \in 1..Len(outline) : \A j \in 1..Len(outline) :
          i < j => outline[i].page <= outline[j].page
    /\ \A r \in result : \A i \in 1..Len(r.outline) : \A j \in 1..Len(r.outline) :
          i < j => r.outline[i].page <= r.outline[j].page
    /\ pc = "returned" /\ (\E r \in result : "document_script" \in DOMAIN r) =>
          \A r \in result : r.outline = outline

\* C8: an outline was returned with two entries from one page that is not
\* the first page.
C8_Witness ==
    /\ pc = "returned"
    /\ \E r \in result : \E i \in 1..Len(r.outline) : \E j \in 1..Len(r.outline) :
          i < j /\ r.outline[i].page = r.outline[j].page /\ r.outline[i].page >= 1

\* the line begins with a section-level marker: U+7B2C N U+8282, U+7B2C N
\* U+7BC0, N U+C808, khand N, bhag N
BeginsWithSectionMarker(line) ==
    \/ \E suf \in {33410, 31680} : MatchesDigitsBetween(line, CH_DI, suf)
    \/ MatchesDigitsBetween(line, <<>>, 51208)
    \/ WordSpacesDigitAt(line, 1, HI_KHAND)
    \/ WordSpacesDigitAt(line, 1, HI_BHAG)

\* r'^\d+\.\d+': a decimal-numbering prefix
HasDecimalPrefix(line) ==
    Len(line) >= 1 /\ IsDigit(line[1]) /\ DotGroupCount(line, SkipWhile(line, 1, DigitChars)) >= 1

\* C9: the entry appended for a line that begins with a section-level marker
\* and has no decimal-numbering prefix has level H2.
C9_SectionMarkersAreH2 ==
    \A i \in 1..Len(outline) :
        LET line == LineAt(emitted_at[i])
        IN  BeginsWithSectionMarker(line) /\ ~HasDecimalPrefix(line)
                => outline[i].level = "H2"

\* the length caps of the heading classifier
WithinCaps(line) ==
    LET cjk == detect_script_type(line) \in {"chinese", "japanese"}
    IN  /\ WordCount(line) <= (IF cjk THEN 20 ELSE 15)
        /\ Len(line) <= (IF cjk THEN 50 ELSE 120)

\* C10: a scanned line that matches an appendix prefix, is within the length
\* caps, has context density below 4, is not a repeated line, and whose
\* cleaned text differs from the title and from every heading seen before
\* it, has been appended with level H2.
C10_AppendixReachesOutline ==
    \A pos \in Positions :
        LET line == LineAt(pos)
            clean_text == clean_multilingual_heading(line)
        IN  /\ Scanned(pos)
            /\ MatchesAppendix(line)
            /\ WithinCaps(line)
            /\ ContextAt(pos) < 4
            /\ line \notin repeated_lines
            /\ clean_text # <<>>
            /\ Lower(clean_text) # Lower(title)
            /\ \A i \in 1..Len(outline) :
                  Before(emitted_at[i], pos) => Lower(outline[i].text) # Lower(clean_text)
            => \E i \in 1..Len(outline) :
                  /\ emitted_at[i] = pos
                  /\ outline[i].text = clean_text
                  /\ outline[i].level = "H2"

-----------------------------------------------------------------------------
(* Properties of detect_script_type (checked under SpecScript)             *)

\* the reference definition: the category with the highest count, ties
\* resolved by chinese > japanese > korean > devanagari > cyrillic > latin,
\* and latin when no character falls into any category
PRIORITY == <<"chinese", "japanese", "korean", "devanagari", "cyrillic", "latin">>

ReferenceScript(t) ==
    IF \A k \in Range(PRIORITY) : ScriptCount(t, k) = 0 THEN "latin"
    ELSE LET best == CHOOSE i \in 1..Len(PRIORITY) :
                        /\ \A j \in 1..Len(PRIORITY) :
                              ScriptCount(t, PRIORITY[j]) <= ScriptCount(t, PRIORITY[i])
                        /\ \A j \in 1..(i - 1) :
                              ScriptCount(t, PRIORITY[j]) < ScriptCount(t, PRIORITY[i])
         IN  PRIORITY[best]

\* C7: detect_script_type returns what the reference definition gives.
C7_AgreesWithReference ==
    sd_result # "" => sd_result = ReferenceScript(sd_text)

-----------------------------------------------------------------------------
(* Properties of the batch loop (checked under SpecBatch)                  *)

\* the indices of the supported files whose try block had the outcome o
FilesWith(o) == { i \in 1..Len(outcomes) : outcomes[i] = o }

Failed == FilesWith("extract_fail") \cup FilesWith("open_fail") \cup FilesWith("dump_fail")

LastLine == console[Len(console)]

\* C6: the run never aborts; at its end every supported document
\* whose try block succeeded has an artifact of its own, no artifact comes
\* from a document whose extraction failed, and the summary shows the count
\* of successes and the count of failures.
C6_BatchFailureIsolation ==
    /\ batch_pc # "aborted"
    /\ batch_pc = "done" =>
          /\ Len(outcomes) = Len(files)
          /\ \A i \in FilesWith("ok") :
                \E a \in artifacts :
                    /\ a.by = files[i] /\ a.complete
                    /\ \A j \in FilesWith("ok") : j # i => OutputPath(files[j]) # a.path
          /\ \A a \in artifacts : \A i \in FilesWith("extract_fail") : a.by # files[i]
          /\ LastLine.kind = "complete"
          /\ LastLine.numbers = <<Cardinality(FilesWith("ok")), Cardinality(Failed)>>

-----------------------------------------------------------------------------
(* Properties of extract_multilingual_title (checked under Spec)           *)

\* the acceptance test with the length bounds taken inclusively: 3 to 80
\* characters and at most 25 words for chinese / japanese text, 5 to 100
\* characters and at most 15 words otherwise
AcceptsInclusive(line_clean, repeated) ==
    LET cjk == detect_script_type(line_clean) \in {"chinese", "japanese"}
        lo == IF cjk THEN 3 ELSE 5
        hi == IF cjk THEN 80 ELSE 100
        max_words == IF cjk THEN 25 ELSE 15
    IN  /\ lo <= Len(line_clean) /\ Len(line_clean) <= hi
        /\ WordCount(line_clean) <= max_words
        /\ line_clean \notin repeated
        /\ ~is_multilingual_noise(line_clean, repeated, 0)

\* the indices, among the first 10 lines of the first page, of the lines
\* that pass the inclusive test
InclusiveCandidates ==
    LET head == Take(page_texts[1], 10)
    IN  { i \in 1..Len(head) : AcceptsInclusive(Strip(head[i]), repeated_lines) }

\* C11: once the title is extracted, it is the cleaned text of the first of
\* the first 10 lines of the first page whose length is within the
\* script-dependent bounds inclusive, that is not a repeated line and not
\* noise with empty context; it is empty if and only if there is no such
\* line.  A line whose length is exactly a bound is accepted.
C11_TitleBoundsInclusive ==
    pc \in {"titled", "scan", "returned"} /\ page_texts # <<>> =>
        /\ title = <<>> <=> InclusiveCandidates = {}
        /\ InclusiveCandidates # {} =>
              LET first == CHOOSE i \in InclusiveCandidates :
                               \A j \in InclusiveCandidates : i <= j
              IN  title = clean_multilingual_heading(Strip(page_texts[1][first]))

=============================================================================
